---- MODULE Spec2Model ----
(***************************************************************************)
(* Model of the DCF valuation tool ("DCF analysis trial/DCF analysis.py"): *)
(* the DCFAnalysis object, its methods, and the test_run pipeline.         *)
(*                                                                         *)
(* Numbers.  The program computes with IEEE doubles inside pandas/numpy.   *)
(* The model computes with exact extended rationals: a number is a pair    *)
(* <<n, d>>; d > 0 is the rational n/d in lowest terms, <<1,0>> is +inf,   *)
(* <<-1,0>> is -inf and <<0,0>> is NaN (also pandas' null).  Division by   *)
(* zero follows numpy (x/0 = +-inf, 0/0 = NaN, no exception).  Rounding    *)
(* and the sign of zero are not modelled.  Python's None is <<0,-1>> for a *)
(* float attribute and -1 for an int attribute.                            *)
(***************************************************************************)
EXTENDS Integers, Sequences, FiniteSets, TLC

\* ------------------------------------------------------------------------
\* Bounds of the model
MaxYears == 3      \* projection lengths explored: 1..MaxYears (program: 1..10)
MaxRows == 2       \* rows of a statements table: 0..MaxRows
MaxRejects == 2    \* rejected entries counted per get_user_inputs call (saturating)
MaxDays == 2       \* rows (trading days) of a price download: 0..MaxDays

\* Program constants
YearsLow == 1
YearsHigh == 10
TaxPct == 21

\* ------------------------------------------------------------------------
\* Extended rational arithmetic (numpy float semantics without rounding)
NaN == <<0, 0>>
PosInf == <<1, 0>>
NegInf == <<-1, 0>>
NoneF == <<0, -1>>
NoneI == -1

Abs(i) == IF i < 0 THEN -i ELSE i
Sgn(i) == IF i < 0 THEN -1 ELSE IF i = 0 THEN 0 ELSE 1

RECURSIVE GCD(_, _)
GCD(a, b) == IF b = 0 THEN a ELSE GCD(b, a % b)

Norm(n, d) ==
  LET g == GCD(Abs(n), d) IN <<n \div g, d \div g>>

Num(i) == <<i, 1>>
Frac(n, d) == Norm(n, d)

IsNaN(x) == x = NaN
IsFinite(x) == x[2] > 0
IsInf(x) == x[2] = 0 /\ x[1] # 0

RNeg(x) == <<-x[1], x[2]>>

RAdd(x, y) ==
  IF IsNaN(x) \/ IsNaN(y) THEN NaN
  ELSE IF IsInf(x) /\ IsInf(y) THEN (IF x = y THEN x ELSE NaN)
  ELSE IF IsInf(x) THEN x
  ELSE IF IsInf(y) THEN y
  ELSE LET g == GCD(x[2], y[2])
           l == (x[2] \div g) * y[2]
       IN  Norm(x[1] * (l \div x[2]) + y[1] * (l \div y[2]), l)

RSub(x, y) == RAdd(x, RNeg(y))

RMul(x, y) ==
  IF IsNaN(x) \/ IsNaN(y) THEN NaN
  ELSE IF IsInf(x) \/ IsInf(y)
       THEN (IF x[1] = 0 \/ y[1] = 0 THEN NaN ELSE <<Sgn(x[1]) * Sgn(y[1]), 0>>)
  ELSE LET g1 == GCD(Abs(x[1]), y[2])
           g2 == GCD(Abs(y[1]), x[2])
       IN  <<(x[1] \div g1) * (y[1] \div g2), (x[2] \div g2) * (y[2] \div g1)>>

RDiv(x, y) ==
  IF IsNaN(x) \/ IsNaN(y) THEN NaN
  ELSE IF IsInf(y) THEN (IF IsInf(x) THEN NaN ELSE Num(0))
  ELSE IF y[1] = 0 THEN (IF x[1] = 0 THEN NaN ELSE <<Sgn(x[1]), 0>>)
  ELSE IF IsInf(x) THEN <<Sgn(x[1]) * Sgn(y[1]), 0>>
  ELSE RMul(x, <<Sgn(y[1]) * y[2], Abs(y[1])>>)

RECURSIVE RPow(_, _)
RPow(x, k) == IF k = 0 THEN Num(1) ELSE RMul(x, RPow(x, k - 1))

\* x < y as floats compare: FALSE whenever a NaN is involved
RLess(x, y) ==
  IF IsNaN(x) \/ IsNaN(y) THEN FALSE
  ELSE IF IsInf(x) \/ IsInf(y)
       THEN (IF x = y THEN FALSE ELSE (x = NegInf \/ y = PosInf))
  ELSE x[1] * y[2] < y[1] * x[2]

RLeq(x, y) == RLess(x, y) \/ (~IsNaN(x) /\ x = y)

RECURSIVE SumSeq(_)
SumSeq(s) == IF s = <<>> THEN Num(0) ELSE RAdd(Head(s), SumSeq(Tail(s)))

RECURSIVE ProdSeq(_)
ProdSeq(s) == IF s = <<>> THEN Num(1) ELSE RMul(Head(s), ProdSeq(Tail(s)))


\* ------------------------------------------------------------------------
\* Data frames.  A frame is [none, index, data]: `index` is the number of
\* rows, `data` maps each column name to its sequence of `index` numbers.
\* none = TRUE stands for the attribute still being None.
RequiredColumns ==
  {"Revenue", "Operating_Expenses", "Depreciation", "Capex", "Change_Working_Capital"}

NoFrame == [none |-> TRUE, index |-> 0, data |-> <<>>]
Frame(n, d) == [none |-> FALSE, index |-> n, data |-> d]
Columns(f) == DOMAIN f.data
HasCol(f, c) == ~f.none /\ c \in Columns(f)
\* frame[c] = values : assignment of a whole column (added or replaced)
SetCol(f, c, values) ==
  Frame(f.index, [k \in Columns(f) \cup {c} |-> IF k = c THEN values ELSE f.data[k]])

\* Series.mean(): NaN entries are skipped; the mean of nothing is NaN
NonNaN(s) == SelectSeq(s, LAMBDA v : ~IsNaN(v))
Mean(s) ==
  IF NonNaN(s) = <<>> THEN NaN ELSE RDiv(SumSeq(NonNaN(s)), Num(Len(NonNaN(s))))

\* Series.pct_change(): first entry NaN, then s[i] / s[i-1] - 1
PctChange(s) ==
  [i \in 1..Len(s) |-> IF i = 1 THEN NaN ELSE RSub(RDiv(s[i], s[i - 1]), Num(1))]

\* mutant of Linspace: the spacing of endpoint=False, stop never reached
LinspaceOpen(start, stop, num) ==
  LET step == RDiv(RSub(stop, start), Num(num))
  IN  [i \in 1..num |-> RAdd(RMul(Num(i - 1), step), start)]

\* numpy.linspace(start, stop, num) for num >= 1, endpoint=True:
\* y = arange(num) * step + start with step = (stop - start) / (num - 1),
\* the last entry overwritten by stop when num > 1; for num = 1 the
\* single entry is 0 * (stop - start) + start.
Linspace(start, stop, num) ==
  LET delta == RSub(stop, start)
      step == RDiv(delta, Num(num - 1))
  IN  [i \in 1..num |->
         IF num = 1 THEN RAdd(RMul(Num(0), delta), start)
         ELSE IF i = num THEN stop
         ELSE RAdd(RMul(Num(i - 1), step), start)]

\* (1 - 0.21)
AfterTax == Frac(100 - TaxPct, 100)

\* ------------------------------------------------------------------------
\* DCFAnalysis.load_data(filepath).  A file is either unreadable (read_csv
\* raises) or holds a frame.  self.statements is assigned before the column
\* check, so a frame with missing columns is kept although False is returned.
Unreadable == [none |-> TRUE, index |-> 0, data |-> <<>>]

\* mutant of load_data: the column check dropped
load_data_unchecked(statements, file) ==
  IF file.none
  THEN [ok |-> FALSE, statements |-> statements]
  ELSE [ok |-> TRUE, statements |-> file]

load_data(statements, file) ==
  IF file.none
  THEN [ok |-> FALSE, statements |-> statements]
  ELSE IF \E col \in RequiredColumns : col \notin Columns(file)
       THEN [ok |-> FALSE, statements |-> file]
       ELSE [ok |-> TRUE, statements |-> file]

\* ------------------------------------------------------------------------
\* DCFAnalysis.calculate_free_cash_flow().  The three derived columns are
\* assigned one after the other; an exception (None statements, a missing
\* column) leaves the columns assigned so far in place and returns None.
\* mutant of FreeCashFlow: the change in working capital not subtracted
FreeCashFlowNoWorkingCapital(nopat, depreciation, capex, change_working_capital) ==
  RSub(RAdd(nopat, depreciation), capex)

\* NOPAT + Depreciation - Capex - Change_Working_Capital
FreeCashFlow(nopat, depreciation, capex, change_working_capital) ==
  RSub(RSub(RAdd(nopat, depreciation), capex), change_working_capital)

calculate_free_cash_flow(statements) ==
  IF ~(HasCol(statements, "Revenue") /\ HasCol(statements, "Operating_Expenses"))
  THEN [ok |-> FALSE, statements |-> statements]
  ELSE
    LET n == statements.index
        s1 == SetCol(statements, "EBIT",
                 [i \in 1..n |-> RSub(statements.data["Revenue"][i],
                                      statements.data["Operating_Expenses"][i])])
        s2 == SetCol(s1, "NOPAT", [i \in 1..n |-> RMul(s1.data["EBIT"][i], AfterTax)])
        s3 == SetCol(s2, "FCF",
                 [i \in 1..n |->
                    FreeCashFlow(s2.data["NOPAT"][i], s2.data["Depreciation"][i],
                                 s2.data["Capex"][i],
                                 s2.data["Change_Working_Capital"][i])])
    IN  IF HasCol(s2, "Depreciation") /\ HasCol(s2, "Capex")
           /\ HasCol(s2, "Change_Working_Capital")
        THEN [ok |-> TRUE, statements |-> s3]
        ELSE [ok |-> FALSE, statements |-> s2]

\* ------------------------------------------------------------------------
\* DCFAnalysis.project_financials().  Returns None on success and on
\* failure alike; `failed` records that the except branch ran.  The locals
\* growth_rates, base_revenue and avg_margin are kept for inspection.
NoLocals == [historical_growth |-> NaN, growth_rates |-> <<>>,
             base_revenue |-> NaN, avg_margin |-> NaN]

\* mutant of ProjectedRevenue: growth not compounded
ProjectedRevenueSimple(base_revenue, growth_rates, i) ==
  RMul(base_revenue, RAdd(Num(1), growth_rates[i]))

\* base_revenue * np.prod(1 + growth_rates[:i])
ProjectedRevenue(base_revenue, growth_rates, i) ==
  RMul(base_revenue, ProdSeq([k \in 1..i |-> RAdd(Num(1), growth_rates[k])]))

project_financials(statements, projections, terminal_growth, projection_years) ==
  IF ~HasCol(statements, "Revenue") \/ projection_years = NoneI
  THEN [failed |-> TRUE, projections |-> projections, locals |-> NoLocals]
  ELSE
    LET n == projection_years
        rev == statements.data["Revenue"]
        historical_growth == Mean(PctChange(rev))
        p0 == Frame(n, <<>>)
        growth_rates == Linspace(historical_growth, terminal_growth, n)
        base_revenue == rev[Len(rev)]
        p1 == SetCol(p0, "Revenue",
                [i \in 1..n |-> ProjectedRevenue(base_revenue, growth_rates, i)])
        avg_margin ==
          Mean([i \in 1..Len(rev) |-> RDiv(statements.data["EBIT"][i], rev[i])])
        p2 == SetCol(p1, "EBIT", [i \in 1..n |-> RMul(p1.data["Revenue"][i], avg_margin)])
        p3 == SetCol(p2, "FCF", [i \in 1..n |-> RMul(p2.data["EBIT"][i], AfterTax)])
    IN  IF terminal_growth = NoneF \/ Len(rev) = 0
        THEN [failed |-> TRUE, projections |-> p0, locals |-> NoLocals]
        ELSE IF ~HasCol(statements, "EBIT")
        THEN [failed |-> TRUE, projections |-> p1, locals |-> NoLocals]
        ELSE [failed |-> FALSE, projections |-> p3,
              locals |-> [historical_growth |-> historical_growth,
                          growth_rates |-> growth_rates,
                          base_revenue |-> base_revenue,
                          avg_margin |-> avg_margin]]

\* ------------------------------------------------------------------------
\* DCFAnalysis.calculate_dcf_value().
\* sum(self.projections['FCF'] / (1 + wacc) ** year for year in 1..N) adds
\* N copies of the whole FCF column, each divided by one year's factor: the
\* result is a Series with one entry per projected row.
PvFcfSeries(fcf, wacc, years) ==
  [i \in 1..Len(fcf) |->
     SumSeq([year \in 1..years |-> RDiv(fcf[i], RPow(RAdd(Num(1), wacc), year))])]

\* float(series): the single entry of a one-entry Series where the installed
\* pandas still coerces it, TypeError otherwise
FloatOk(series, coerces) == DOMAIN series = {1} /\ coerces
FloatOf(series) == series[1]

\* mutant of TerminalValue: the last cash flow not grown by (1 + g)
TerminalValueNoGrowth(fcf, wacc, terminal_growth) ==
  RDiv(fcf[Len(fcf)], RSub(wacc, terminal_growth))

\* terminal_fcf = FCF.iloc[-1] * (1 + g); terminal_value = terminal_fcf / (wacc - g)
TerminalValue(fcf, wacc, terminal_growth) ==
  RDiv(RMul(fcf[Len(fcf)], RAdd(Num(1), terminal_growth)), RSub(wacc, terminal_growth))

NoValue == [pv_fcf |-> NaN, terminal_value |-> NaN, pv_terminal |-> NaN, total_value |-> NaN]

calculate_dcf_value(projections, wacc, terminal_growth, projection_years, coerces) ==
  IF ~HasCol(projections, "FCF") \/ wacc = NoneF \/ terminal_growth = NoneF
     \/ projection_years = NoneI
  THEN [ok |-> FALSE, value |-> NoValue]
  ELSE
    LET fcf == projections.data["FCF"]
        pv_fcf == PvFcfSeries(fcf, wacc, projection_years)
        terminal_value == TerminalValue(fcf, wacc, terminal_growth)
        pv_terminal == RDiv(terminal_value, RPow(RAdd(Num(1), wacc), projection_years))
        total_value == [i \in 1..Len(pv_fcf) |-> RAdd(pv_fcf[i], pv_terminal)]
    IN  IF FloatOk(pv_fcf, coerces) /\ FloatOk(total_value, coerces)
        THEN [ok |-> TRUE,
              value |-> [pv_fcf |-> FloatOf(pv_fcf),
                         terminal_value |-> terminal_value,
                         pv_terminal |-> pv_terminal,
                         total_value |-> FloatOf(total_value)]]
        ELSE [ok |-> FALSE, value |-> NoValue]

\* ------------------------------------------------------------------------
\* DCFAnalysis.create_visualizations(): figures, or None when anything in
\* the try block raises: the plotting style is unknown to the installed
\* matplotlib (styleOk), a plotted column is missing, or the projected FCF
\* column does not have projection_years entries.
create_visualizations(statements, projections, terminal_growth, projection_years, styleOk) ==
  styleOk /\ HasCol(statements, "FCF") /\ HasCol(projections, "FCF")
  /\ projection_years # NoneI /\ projections.index = projection_years
  /\ HasCol(statements, "Revenue") /\ terminal_growth # NoneF

\* DCFAnalysis.generate_pdf_report(figures, dcf_value, ...) as test_run
\* calls it (figures and dcf_value are not None): False when formatting an
\* unset assumption raises or when writing the document fails (ioOk).
generate_pdf_report(wacc, terminal_growth, ioOk) ==
  wacc # NoneF /\ terminal_growth # NoneF /\ ioOk

\* ------------------------------------------------------------------------
\* Console entries.  An entry is the text typed at a prompt: an integer
\* literal ("3"), another float literal ("0.5", "nan") or text that is no
\* number.  float() accepts both kinds of literal, int() only the first.
Entry(lit, v) == [lit |-> lit, v |-> v]
Junk == Entry("junk", NaN)

ParseFloat(e) == [ok |-> e.lit # "junk", v |-> e.v]
ParseInt(e) == [ok |-> e.lit = "int", v |-> e.v[1]]

WaccEntries ==
  {Junk, Entry("int", Num(0)), Entry("int", Num(1)), Entry("dec", NaN),
   Entry("dec", Frac(1, 16)), Entry("dec", Frac(1, 2))}
GrowthEntries ==
  {Junk, Entry("dec", Frac(-1, 10)), Entry("dec", Frac(1, 10)),
   Entry("int", Num(0)), Entry("dec", Frac(1, 16))}
YearsEntries ==
  {Junk, Entry("dec", Frac(5, 2)), Entry("int", Num(YearsLow - 1)),
   Entry("int", Num(YearsHigh)), Entry("int", Num(YearsHigh + 1))}
  \cup {Entry("int", Num(n)) : n \in 1..MaxYears}

\* ------------------------------------------------------------------------
\* Files.  Rows of historical line items: RowA and RowB are complete (RowB
\* has twice RowA's revenue), RowZ has zero revenue and RowN a null (an empty
\* cell) in Capex.  Revenue is never null here: how pct_change fills nulls
\* differs between pandas versions.
RowA == [Revenue |-> Num(2), Operating_Expenses |-> Num(1), Depreciation |-> Num(1),
         Capex |-> Num(1), Change_Working_Capital |-> Num(0)]
RowB == [Revenue |-> Num(4), Operating_Expenses |-> Num(1), Depreciation |-> Num(1),
         Capex |-> Num(2), Change_Working_Capital |-> Num(1)]
RowZ == [Revenue |-> Num(0), Operating_Expenses |-> Num(1), Depreciation |-> Num(0),
         Capex |-> Num(0), Change_Working_Capital |-> Num(0)]
RowN == [Revenue |-> Num(4), Operating_Expenses |-> Num(2), Depreciation |-> Num(1),
         Capex |-> NaN, Change_Working_Capital |-> Num(0)]
Rows == {RowA, RowB, RowZ, RowN}

RowSeqs == UNION {[1..n -> Rows] : n \in 0..MaxRows}
TableOf(cols, rows) ==
  Frame(Len(rows), [c \in cols |-> [i \in 1..Len(rows) |-> rows[i][c]]])

\* what create_test_data writes: all five required columns
TestTables == {TableOf(RequiredColumns, rows) : rows \in RowSeqs}
\* what a user may point load_data at
Files ==
  {Unreadable,
   TableOf(RequiredColumns, <<>>),
   TableOf(RequiredColumns, <<RowA>>),
   TableOf(RequiredColumns, <<RowB, RowA>>),
   TableOf(RequiredColumns, <<RowA, RowB, RowB>>),
   TableOf(RequiredColumns, <<RowA, RowZ>>),
   TableOf(RequiredColumns, <<RowA, RowN>>),
   TableOf(RequiredColumns \ {"Capex"}, <<RowA, RowB>>)}

\* ------------------------------------------------------------------------
\* State
VARIABLES
  statements,        \* self.statements
  projections,       \* self.projections
  wacc,              \* self.wacc
  terminal_growth,   \* self.terminal_growth
  projection_years,  \* self.projection_years
  pc,                \* where the client is: "idle" (between calls of a user
                     \* session), inside get_user_inputs, or inside test_run
  ret,               \* the last call: its name, outcome and inspected locals
  disk,              \* test_financial_data.csv: its content, or NoFile
  coerces,           \* the installed pandas lets float() take a 1-entry Series
  ticker_index,      \* comparison script: position of the for loop in tickers
  stock_data,        \* comparison script: the last ticker download
  market_data,       \* comparison script: the last ^GSPC download
  comparison_data,   \* comparison script: the dictionary ticker -> columns
  workbooks,         \* comparison script: <ticker>_Financial_Analysis.xlsx on disk
  sheets,            \* comparison script: sheets of Multi_Stock_Comparison.xlsx
  console            \* comparison script: the lines printed, <<kind, ticker>>

script == <<ticker_index, stock_data, market_data, comparison_data, workbooks,
            sheets, console>>
vars == <<statements, projections, wacc, terminal_growth, projection_years,
          pc, ret, disk, coerces, script>>
env == <<disk, coerces, script>>
dcf == <<statements, projections, wacc, terminal_growth, projection_years>>

NoFile == [exists |-> FALSE, content |-> NoFrame]
OnDisk(f) == [exists |-> TRUE, content |-> f]

Ret(op, ok) ==
  [op |-> op, ok |-> ok, value |-> NoValue, locals |-> NoLocals,
   entry |-> Junk, rejects |-> 0]

\* ------------------------------------------------------------------------
\* The multi-stock comparison script ("multi stock comparison.py"): data.
\* A download is what yf.download returns or the fact that it raised.  A
\* table is its number of rows (trading days), its column names and whether
\* the columns are a MultiIndex of (name, ticker) pairs; the prices
\* themselves play no part in the control flow and are left out.
tickers == <<"AAPL", "TSLA", "GOOGL">>

Download(rows, columns, multi) ==
  [raises |-> FALSE, rows |-> rows, columns |-> columns, multi |-> multi]
Raised == [raises |-> TRUE, rows |-> 0, columns |-> {}, multi |-> FALSE]
\* stock_data / market_data before the first assignment (never read then)
Unbound == Download(0, {}, FALSE)

Prices == {"Open", "High", "Low", "Close", "Volume"}
PricesAdj == Prices \cup {"Adj Close"}

\* what a ticker download can be: an exception, a table without rows and
\* columns, or 0..MaxDays rows of prices with or without "Adj Close"
StockDownloads ==
  {Raised, Download(0, {}, FALSE)}
    \cup {Download(n, c, m) : n \in 0..MaxDays, c \in {Prices, PricesAdj},
                               m \in BOOLEAN}
\* what the "^GSPC" download can be
MarketDownloads ==
  {Raised, Download(0, {}, FALSE), Download(MaxDays, Prices, TRUE),
   Download(MaxDays, PricesAdj, FALSE)}

\* mutant of Empty: a table is never taken for empty
EmptyNever(df) == FALSE

\* DataFrame.empty: an axis of length 0
Empty(df) == df.rows = 0 \/ df.columns = {}

\* df.columns = [col[0] for col in df.columns] when they are a MultiIndex
Flatten(df) == [df EXCEPT !.multi = FALSE]

\* "Adj Close" if "Adj Close" in stock_data.columns else "Close"
PriceColumn(df) == IF "Adj Close" \in df.columns THEN "Adj Close" ELSE "Close"

AnalysisColumns == {"Daily Return", "50-Day MA", "200-Day MA", "Volatility"}

\* df[name] = ... : a new column
WithColumns(df, names) == [df EXCEPT !.columns = @ \cup names]

\* stock_data[[price_column, "Daily Return", ...]]
Selection(df, price_column) ==
  [rows |-> df.rows, columns |-> {price_column} \cup AnalysisColumns]

\* lines 35-56 for a non-empty download: the tables after the step and
\* whether line 56 was reached.  stock_data[price_column] and
\* market_data[price_column] raise KeyError when the column is missing;
\* what was assigned before the exception stays assigned.
Analyse(stock, market) ==
  LET s == Flatten(stock)
      m == Flatten(market)
      price_column == PriceColumn(s)
  IN  IF price_column \notin s.columns
        THEN [ok |-> FALSE, stock |-> s, market |-> m, price_column |-> price_column]
      ELSE IF price_column \notin m.columns
        THEN [ok |-> FALSE, stock |-> WithColumns(s, {"Daily Return"}),
              market |-> m, price_column |-> price_column]
      ELSE [ok |-> TRUE, stock |-> WithColumns(s, AnalysisColumns),
            market |-> WithColumns(m, {"Daily Return"}),
            price_column |-> price_column]

\* the script before its first statement
ScriptStart ==
  /\ ticker_index = 1
  /\ stock_data = Unbound
  /\ market_data = Unbound
  /\ comparison_data = <<>>
  /\ workbooks = {}
  /\ sheets = {}
  /\ console = <<>>

\* DCFAnalysis.__init__, the test file not yet written
Fresh ==
  /\ ScriptStart
  /\ statements = NoFrame
  /\ projections = NoFrame
  /\ wacc = NoneF
  /\ terminal_growth = NoneF
  /\ projection_years = NoneI
  /\ ret = Ret("__init__", TRUE)
  /\ disk = NoFile
  /\ coerces \in BOOLEAN

\* ------------------------------------------------------------------------
\* A user session: the methods of one object, in any order.  A session
\* works on one file: load_data is called until a file has been read.
call_load_data ==
  /\ pc = "idle"
  /\ statements.none
  /\ \E file \in Files :
       LET r == load_data(statements, file) IN
         /\ statements' = r.statements
         /\ ret' = Ret("load_data", r.ok)
  /\ UNCHANGED <<projections, wacc, terminal_growth, projection_years, pc, env>>

call_calculate_free_cash_flow ==
  /\ pc = "idle"
  /\ LET r == calculate_free_cash_flow(statements) IN
       /\ statements' = r.statements
       /\ ret' = Ret("calculate_free_cash_flow", r.ok)
  /\ UNCHANGED <<projections, wacc, terminal_growth, projection_years, pc, env>>

call_project_financials ==
  /\ pc = "idle"
  /\ projection_years <= MaxYears
  /\ LET r == project_financials(statements, projections, terminal_growth,
                                 projection_years) IN
       /\ projections' = r.projections
       /\ ret' = [Ret("project_financials", ~r.failed) EXCEPT !.locals = r.locals]
  /\ UNCHANGED <<statements, wacc, terminal_growth, projection_years, pc, env>>

call_calculate_dcf_value ==
  /\ pc = "idle"
  /\ projection_years <= MaxYears
  /\ LET r == calculate_dcf_value(projections, wacc, terminal_growth,
                                  projection_years, coerces) IN
       ret' = [Ret("calculate_dcf_value", r.ok) EXCEPT !.value = r.value]
  /\ UNCHANGED <<dcf, pc, env>>

\* get_user_inputs: three prompt loops.  Each loop assigns the parsed
\* number to the attribute and breaks when it is in range; a ValueError
\* from float()/int() or a number out of range prompts again.
\* mutant of AcceptsWacc: the lower limit included
AcceptsWaccFromZero(e) ==
  ParseFloat(e).ok /\ RLeq(Num(0), ParseFloat(e).v) /\ RLess(ParseFloat(e).v, Num(1))

AcceptsWacc(e) ==
  ParseFloat(e).ok /\ RLess(Num(0), ParseFloat(e).v) /\ RLess(ParseFloat(e).v, Num(1))
AcceptsGrowth(e) ==
  ParseFloat(e).ok /\ RLess(Frac(-1, 10), ParseFloat(e).v)
  /\ RLess(ParseFloat(e).v, Frac(1, 10))
AcceptsYears(e) ==
  ParseInt(e).ok /\ YearsLow <= ParseInt(e).v /\ ParseInt(e).v <= YearsHigh

\* the whole call, as the session sees it: it returns once an accepted
\* entry has been typed at each prompt (explored for up to MaxYears years)
call_get_user_inputs ==
  /\ pc = "idle"
  /\ \E ew \in WaccEntries, eg \in GrowthEntries, ey \in YearsEntries :
       /\ AcceptsWacc(ew) /\ AcceptsGrowth(eg) /\ AcceptsYears(ey)
       /\ ParseInt(ey).v <= MaxYears
       /\ wacc' = ParseFloat(ew).v
       /\ terminal_growth' = ParseFloat(eg).v
       /\ projection_years' = ParseInt(ey).v
  /\ ret' = Ret("get_user_inputs", TRUE)
  /\ UNCHANGED <<statements, projections, pc, env>>

\* the same call one entry at a time
Reject(accepted) ==
  IF accepted \/ ret.rejects = MaxRejects THEN ret.rejects ELSE ret.rejects + 1

get_user_inputs ==
  /\ pc = "idle"
  /\ pc' = "input_wacc"
  /\ ret' = Ret("get_user_inputs", TRUE)
  /\ UNCHANGED <<dcf, env>>

input_wacc ==
  /\ pc = "input_wacc"
  /\ \E e \in WaccEntries :
       /\ wacc' = IF ParseFloat(e).ok THEN ParseFloat(e).v ELSE wacc
       /\ pc' = IF AcceptsWacc(e) THEN "input_growth" ELSE "input_wacc"
       /\ ret' = [Ret("input_wacc", AcceptsWacc(e)) EXCEPT
                    !.entry = e, !.rejects = Reject(AcceptsWacc(e))]
  /\ UNCHANGED <<statements, projections, terminal_growth, projection_years, env>>

input_growth ==
  /\ pc = "input_growth"
  /\ \E e \in GrowthEntries :
       /\ terminal_growth' = IF ParseFloat(e).ok THEN ParseFloat(e).v ELSE terminal_growth
       /\ pc' = IF AcceptsGrowth(e) THEN "input_years" ELSE "input_growth"
       /\ ret' = [Ret("input_growth", AcceptsGrowth(e)) EXCEPT
                    !.entry = e, !.rejects = Reject(AcceptsGrowth(e))]
  /\ UNCHANGED <<statements, projections, wacc, projection_years, env>>

input_years ==
  /\ pc = "input_years"
  /\ \E e \in YearsEntries :
       /\ projection_years' = IF ParseInt(e).ok THEN ParseInt(e).v ELSE projection_years
       /\ pc' = IF AcceptsYears(e) THEN "idle" ELSE "input_years"
       /\ ret' = [Ret("input_years", AcceptsYears(e)) EXCEPT
                    !.entry = e, !.rejects = Reject(AcceptsYears(e))]
  /\ UNCHANGED <<statements, projections, wacc, terminal_growth, env>>

\* ------------------------------------------------------------------------
\* test_run(), one action per stage.  The run is explored over the family
\* TestTables x TestInputs in place of the one synthetic data set and the
\* one triple (0.10, 0.02, 5) of the source, whose values exact 32-bit
\* rational arithmetic cannot carry.
TestWacc == {Frac(1, 16), Frac(1, 2)}
TestGrowth == {Num(0), Frac(1, 16)}
TestYears == 1..MaxYears

\* test_file = create_test_data(); if not test_file: return
test_run_create ==
  /\ pc = "test_run"
  /\ \/ \E table \in TestTables :
          /\ disk' = OnDisk(table)
          /\ pc' = "tr_load"
          /\ ret' = Ret("create_test_data", TRUE)
     \/ /\ disk' = disk
        /\ pc' = "returned"
        /\ ret' = Ret("create_test_data", FALSE)
  /\ UNCHANGED <<dcf, coerces, script>>

\* if not dcf.load_data(test_file): return
test_run_load ==
  /\ pc = "tr_load"
  /\ \E readable \in BOOLEAN :
       LET r == load_data(statements, IF readable THEN disk.content ELSE Unreadable) IN
         /\ statements' = r.statements
         /\ pc' = IF r.ok THEN "tr_inputs" ELSE "returned"
         /\ ret' = Ret("load_data", r.ok)
  /\ UNCHANGED <<projections, wacc, terminal_growth, projection_years, env>>

\* dcf.wacc = ...; dcf.terminal_growth = ...; dcf.projection_years = ...
test_run_inputs ==
  /\ pc = "tr_inputs"
  /\ wacc' \in TestWacc
  /\ terminal_growth' \in TestGrowth
  /\ projection_years' \in TestYears
  /\ pc' = "tr_fcf"
  /\ ret' = Ret("test_inputs", TRUE)
  /\ UNCHANGED <<statements, projections, env>>

\* fcf = dcf.calculate_free_cash_flow(); if fcf is None: return
test_run_fcf ==
  /\ pc = "tr_fcf"
  /\ LET r == calculate_free_cash_flow(statements) IN
       /\ statements' = r.statements
       /\ pc' = IF r.ok THEN "tr_project" ELSE "returned"
       /\ ret' = Ret("calculate_free_cash_flow", r.ok)
  /\ UNCHANGED <<projections, wacc, terminal_growth, projection_years, env>>

\* dcf.project_financials()   -- the return value is not looked at
test_run_project ==
  /\ pc = "tr_project"
  /\ LET r == project_financials(statements, projections, terminal_growth,
                                 projection_years) IN
       /\ projections' = r.projections
       /\ ret' = [Ret("project_financials", ~r.failed) EXCEPT !.locals = r.locals]
  /\ pc' = "tr_value"
  /\ UNCHANGED <<statements, wacc, terminal_growth, projection_years, env>>

\* dcf_value = dcf.calculate_dcf_value(); if dcf_value is None: return
test_run_value ==
  /\ pc = "tr_value"
  /\ LET r == calculate_dcf_value(projections, wacc, terminal_growth,
                                  projection_years, coerces) IN
       /\ pc' = IF r.ok THEN "tr_visualize" ELSE "returned"
       /\ ret' = [Ret("calculate_dcf_value", r.ok) EXCEPT !.value = r.value]
  /\ UNCHANGED <<dcf, env>>

\* figures = dcf.create_visualizations(); if figures is None: return
test_run_visualize ==
  /\ pc = "tr_visualize"
  /\ \E styleOk \in BOOLEAN :
       LET ok == create_visualizations(statements, projections, terminal_growth,
                                       projection_years, styleOk) IN
         /\ pc' = IF ok THEN "tr_report" ELSE "returned"
         /\ ret' = Ret("create_visualizations", ok)
  /\ UNCHANGED <<dcf, env>>

\* if not dcf.generate_pdf_report(figures, dcf_value, ...): return
test_run_report ==
  /\ pc = "tr_report"
  /\ \E ioOk \in BOOLEAN :
       LET ok == generate_pdf_report(wacc, terminal_growth, ioOk) IN
         /\ pc' = IF ok THEN "tr_cleanup" ELSE "returned"
         /\ ret' = Ret("generate_pdf_report", ok)
  /\ UNCHANGED <<dcf, env>>

\* os.remove(test_file), a failure of which is caught and printed
test_run_cleanup ==
  /\ pc = "tr_cleanup"
  /\ \E removed \in BOOLEAN :
       /\ disk' = IF removed THEN NoFile ELSE disk
       /\ ret' = Ret("os.remove", removed)
  /\ pc' = "returned"
  /\ UNCHANGED <<dcf, coerces, script>>

\* ------------------------------------------------------------------------
\* Spec: a user session, any method at any time.
Init == Fresh /\ pc = "idle"

Next ==
  \/ call_load_data
  \/ call_get_user_inputs
  \/ call_calculate_free_cash_flow
  \/ call_project_financials
  \/ call_calculate_dcf_value

Spec == Init /\ [][Next]_vars

\* SpecInputs: get_user_inputs entry by entry.
InitInputs == Fresh /\ pc = "idle"

NextInputs ==
  \/ get_user_inputs
  \/ input_wacc
  \/ input_growth
  \/ input_years

SpecInputs == InitInputs /\ [][NextInputs]_vars

\* SpecRun: test_run.
InitRun == Fresh /\ pc = "test_run"

NextRun ==
  \/ test_run_create
  \/ test_run_load
  \/ test_run_inputs
  \/ test_run_fcf
  \/ test_run_project
  \/ test_run_value
  \/ test_run_visualize
  \/ test_run_report
  \/ test_run_cleanup

SpecRun == InitRun /\ [][NextRun]_vars

\* ------------------------------------------------------------------------
\* The multi-stock comparison script, lines 21-79: the for loop over
\* tickers, one action per stretch of the loop body between two points
\* where it can leave the iteration, and the comparison workbook export.
\* pc is "loop" at the top of the for statement, "fetched" after the two
\* downloads, "stored" after line 56, "charts" after line 79 and "crashed"
\* when an exception outside the try block ended the script.
ticker == tickers[ticker_index]
Says(out, kind) == Append(out, <<kind, ticker>>)

\* lines 25-29; an exception is caught at line 71: print, continue
loop_fetch ==
  /\ pc = "loop"
  /\ ticker_index <= Len(tickers)
  /\ \E s \in StockDownloads, m \in MarketDownloads :
       IF s.raises \/ m.raises
         THEN /\ stock_data' = IF s.raises THEN stock_data ELSE s
              /\ market_data' = market_data
              /\ console' = Says(Says(console, "Processing"), "Error")
              /\ ticker_index' = ticker_index + 1
              /\ pc' = "loop"
         ELSE /\ stock_data' = s
              /\ market_data' = m
              /\ console' = Says(console, "Processing")
              /\ ticker_index' = ticker_index
              /\ pc' = "fetched"
  /\ UNCHANGED <<dcf, ret, disk, coerces, comparison_data, workbooks, sheets>>

\* lines 31-33: if stock_data.empty: print, continue
loop_skip_empty ==
  /\ pc = "fetched"
  /\ Empty(stock_data)
  /\ console' = Says(console, "No data")
  /\ ticker_index' = ticker_index + 1
  /\ pc' = "loop"
  /\ UNCHANGED <<dcf, ret, disk, coerces, stock_data, market_data,
                 comparison_data, workbooks, sheets>>

\* lines 35-56, or up to the exception caught at line 71
loop_analyse ==
  /\ pc = "fetched"
  /\ ~Empty(stock_data)
  /\ LET r == Analyse(stock_data, market_data) IN
       /\ stock_data' = r.stock
       /\ market_data' = r.market
       /\ IF r.ok
            THEN /\ comparison_data' =
                      [t \in DOMAIN comparison_data \cup {ticker} |->
                         IF t = ticker THEN Selection(r.stock, r.price_column)
                                       ELSE comparison_data[t]]
                 /\ console' = console
                 /\ ticker_index' = ticker_index
                 /\ pc' = "stored"
            ELSE /\ comparison_data' = comparison_data
                 /\ console' = Says(console, "Error")
                 /\ ticker_index' = ticker_index + 1
                 /\ pc' = "loop"
  /\ UNCHANGED <<dcf, ret, disk, coerces, workbooks, sheets>>

\* lines 59-69: pd.ExcelWriter opens the file, to_excel and close write
\* it; an exception of either is caught at line 71
loop_export ==
  /\ pc = "stored"
  /\ \E opened \in BOOLEAN, saved \in BOOLEAN :
       /\ workbooks' = IF opened THEN workbooks \cup {ticker} ELSE workbooks
       /\ console' = Says(console, IF opened /\ saved THEN "created" ELSE "Error")
  /\ ticker_index' = ticker_index + 1
  /\ pc' = "loop"
  /\ UNCHANGED <<dcf, ret, disk, coerces, stock_data, market_data,
                 comparison_data, sheets>>

\* lines 76-79, outside any try block: one sheet per entry of
\* comparison_data; a workbook without a sheet cannot be saved (openpyxl
\* raises), nor can one the disk refuses
export_comparison ==
  /\ pc = "loop"
  /\ ticker_index > Len(tickers)
  /\ \E ioOk \in BOOLEAN :
       IF ioOk /\ DOMAIN comparison_data # {}
         THEN sheets' = DOMAIN comparison_data /\ pc' = "charts"
         ELSE sheets' = {} /\ pc' = "crashed"
  /\ UNCHANGED <<dcf, ret, disk, coerces, ticker_index, stock_data, market_data,
                 comparison_data, workbooks, console>>

\* SpecCompare: the comparison script.
InitCompare == Fresh /\ pc = "loop"

NextCompare ==
  \/ loop_fetch
  \/ loop_skip_empty
  \/ loop_analyse
  \/ loop_export
  \/ export_comparison

SpecCompare == InitCompare /\ [][NextCompare]_vars

\* ------------------------------------------------------------------------
\* Properties
StageOps ==
  {"create_test_data", "load_data", "calculate_free_cash_flow", "project_financials",
   "calculate_dcf_value", "create_visualizations", "generate_pdf_report"}

Valued == ret.op = "calculate_dcf_value"
Projected == ret.op = "project_financials"

\* the projected FCF column has one entry per projection year, all finite
FullProjection ==
  /\ HasCol(projections, "FCF")
  /\ projection_years # NoneI
  /\ projections.index = projection_years
  /\ \A i \in 1..projections.index : IsFinite(projections.data["FCF"][i])

\* C1: the 'PV of FCF' that calculate_dcf_value returns for a projection of
\* N = ProjectionYears finite cash flows and a WACC in (0,1) is the sum over
\* year = 1..N of FCF[year] / (1 + WACC)^year (stated for a pandas whose
\* float() still takes a one-entry Series).
C1_PvOfFcfIsDiscountedSum ==
  (Valued /\ coerces /\ FullProjection /\ wacc # NoneF /\ terminal_growth # NoneF)
    => /\ ret.ok
       /\ ret.value.pv_fcf =
            SumSeq([year \in 1..projection_years |->
                      RDiv(projections.data["FCF"][year],
                           RPow(RAdd(Num(1), wacc), year))])

\* C2: calculate_dcf_value invoked with WACC equal to TerminalGrowthRate
\* reports failure; it returns no result.
C2_EqualRatesFail ==
  (Valued /\ FullProjection /\ wacc # NoneF /\ wacc = terminal_growth) => ~ret.ok

NoNumber(e) == e.lit = "junk"
BadWacc(e) == NoNumber(e) \/ RLeq(e.v, Num(0)) \/ RLeq(Num(1), e.v)
BadGrowth(e) == NoNumber(e) \/ RLeq(e.v, Frac(-1, 10)) \/ RLeq(Frac(1, 10), e.v)
BadYears(e) == e.lit # "int" \/ e.v[1] < 1 \/ e.v[1] > 10
InRange ==
  /\ wacc # NoneF /\ RLess(Num(0), wacc) /\ RLess(wacc, Num(1))
  /\ terminal_growth # NoneF
  /\ RLess(Frac(-1, 10), terminal_growth) /\ RLess(terminal_growth, Frac(1, 10))
  /\ projection_years \in 1..10

C4_InputsValidated ==
  [][/\ (pc = "input_wacc" /\ BadWacc(ret'.entry)) => pc' = "input_wacc"
     /\ (pc = "input_growth" /\ BadGrowth(ret'.entry)) => pc' = "input_growth"
     /\ (pc = "input_years" /\ BadYears(ret'.entry)) => pc' = "input_years"
     /\ (pc = "input_wacc" /\ pc' # pc) =>
           (pc' = "input_growth" /\ ~BadWacc(ret'.entry) /\ wacc' = ret'.entry.v)
     /\ (pc = "input_growth" /\ pc' # pc) =>
           (pc' = "input_years" /\ ~BadGrowth(ret'.entry)
            /\ terminal_growth' = ret'.entry.v)
     /\ (pc = "input_years" /\ pc' # pc) =>
           (pc' = "idle" /\ ~BadYears(ret'.entry) /\ InRange')
    ]_vars

\* get_user_inputs has returned after prompting again at least MaxRejects times
C4_Witness ==
  pc = "idle" /\ ret.op = "input_years" /\ ret.ok /\ ret.rejects = MaxRejects

\* C5: project_financials, run on historical records whose free cash flow
\* has been computed, fails and leaves no projected records whenever there
\* are fewer than 2 records or a record has zero Revenue.
ZeroRevenue ==
  \E i \in 1..statements.index : statements.data["Revenue"][i] = Num(0)

C5_DegenerateHistoryFails ==
  (Projected /\ HasCol(statements, "Revenue") /\ HasCol(statements, "FCF")
   /\ (statements.index < 2 \/ ZeroRevenue))
    => (~ret.ok /\ (projections.none \/ Columns(projections) = {}))

\* C6: growth-rate sequence of a successful projection from a finite
\* historicalGrowth.
Monotonic(g) ==
  \/ \A i \in 1..Len(g) : \A j \in i..Len(g) : RLeq(g[i], g[j])
  \/ \A i \in 1..Len(g) : \A j \in i..Len(g) : RLeq(g[j], g[i])

ProjectedFinite == Projected /\ ret.ok /\ IsFinite(ret.locals.historical_growth)

\* C6 as claimed: N entries, the first historicalGrowth, the last
\* TerminalGrowthRate, monotonic in between, for every N in 1..10.
C6_Original ==
  ProjectedFinite =>
    LET g == ret.locals.growth_rates IN
      /\ Len(g) = projection_years
      /\ g[1] = ret.locals.historical_growth
      /\ g[Len(g)] = terminal_growth
      /\ Monotonic(g)

\* C6 amended: N entries, the first historicalGrowth, monotonic; the last is
\* TerminalGrowthRate when N >= 2, and for N = 1 the single entry is
\* historicalGrowth.
C6_GrowthPath ==
  ProjectedFinite =>
    LET g == ret.locals.growth_rates IN
      /\ Len(g) = projection_years
      /\ g[1] = ret.locals.historical_growth
      /\ projection_years >= 2 => g[Len(g)] = terminal_growth
      /\ Monotonic(g)

\* a projection over two or more years whose growth really glides
C6_Witness ==
  /\ ProjectedFinite /\ projection_years >= 2
  /\ ret.locals.historical_growth # terminal_growth

\* C7: what a successful load_data guarantees
Loaded == ret.op = "load_data" /\ ret.ok
HasNull ==
  \E c \in Columns(statements) \cap RequiredColumns :
    \E i \in 1..statements.index : IsNaN(statements.data[c][i])

\* C7 as claimed: success only if all five required columns are present and
\* non-null in every row.
C7_Original ==
  Loaded => (~statements.none /\ RequiredColumns \subseteq Columns(statements)
             /\ ~HasNull)

\* C7 amended: success only if the file was read and all five required
\* columns are present (a missing column fails the load); nulls are not
\* looked at.
C7_ColumnsPresent ==
  ret.op = "load_data" =>
    (ret.ok => (~statements.none /\ RequiredColumns \subseteq Columns(statements)))

\* a table with a null in a required field has been loaded successfully
C7_Witness == Loaded /\ HasNull

\* C8: a returned valuation satisfies, with N = ProjectionYears and FCF[N]
\* the last projected free cash flow: Terminal Value = FCF[N] * (1 + g) /
\* (WACC - g), PV of Terminal Value = Terminal Value / (1 + WACC)^N, Total
\* Value = PV of FCF + PV of Terminal Value (equalities of extended reals).
C8_ValuationFormulas ==
  (Valued /\ ret.ok) =>
    LET fcf == projections.data["FCF"]
        one == Num(1)
    IN  /\ ret.value.terminal_value =
             RDiv(RMul(fcf[Len(fcf)], RAdd(one, terminal_growth)),
                  RSub(wacc, terminal_growth))
        /\ ret.value.pv_terminal =
             RDiv(ret.value.terminal_value, RPow(RAdd(one, wacc), projection_years))
        /\ ret.value.total_value = RAdd(ret.value.pv_fcf, ret.value.pv_terminal)

\* a finite valuation has been returned
C8_Witness ==
  Valued /\ ret.ok /\ IsFinite(ret.value.total_value) /\ ret.value.total_value # Num(0)

\* C9: after a successful projection, Revenue[1] = lastHistoricalRevenue *
\* (1 + growthRates[1]), Revenue[i] = Revenue[i-1] * (1 + growthRates[i]),
\* EBIT[i] = Revenue[i] * avgMargin and FCF[i] = EBIT[i] * (1 - 0.21).
C9_ProjectionFormulas ==
  (Projected /\ ret.ok) =>
    LET g == ret.locals.growth_rates
        hist == statements.data["Revenue"]
        rev == projections.data["Revenue"]
    IN  \A i \in 1..projection_years :
          /\ rev[i] = RMul(IF i = 1 THEN hist[Len(hist)] ELSE rev[i - 1],
                           RAdd(Num(1), g[i]))
          /\ projections.data["EBIT"][i] = RMul(rev[i], ret.locals.avg_margin)
          /\ projections.data["FCF"][i] =
               RMul(projections.data["EBIT"][i], Frac(79, 100))

\* a projection over several years with finite, changing revenue
C9_Witness ==
  /\ Projected /\ ret.ok /\ projection_years >= 2
  /\ IsFinite(projections.data["FCF"][2])
  /\ projections.data["Revenue"][2] # projections.data["Revenue"][1]

\* C10: a successful calculate_free_cash_flow leaves in every row EBIT =
\* Revenue - Operating_Expenses, NOPAT = EBIT * (1 - 0.21), FCF = NOPAT +
\* Depreciation - Capex - Change_Working_Capital, and the five input fields
\* as they were before the call.
C10_FreeCashFlow ==
  [][(ret'.op = "calculate_free_cash_flow" /\ ret'.ok) =>
       /\ statements'.index = statements.index
       /\ \A c \in RequiredColumns : statements'.data[c] = statements.data[c]
       /\ \A i \in 1..statements'.index :
            LET row(c) == statements'.data[c][i] IN
              /\ row("EBIT") = RSub(row("Revenue"), row("Operating_Expenses"))
              /\ row("NOPAT") = RMul(row("EBIT"), Frac(79, 100))
              /\ row("FCF") =
                   RSub(RSub(RAdd(row("NOPAT"), row("Depreciation")), row("Capex")),
                        row("Change_Working_Capital"))
    ]_vars

\* free cash flow has been computed for a table of several rows
C10_Witness ==
  /\ ret.op = "calculate_free_cash_flow" /\ ret.ok /\ statements.index >= 2
  /\ \A i \in 1..statements.index : IsFinite(statements.data["FCF"][i])

\* C11: every test_run that wrote the test data file has removed it when
\* the run ends, on the successful path and on every early return (load,
\* free cash flow, valuation, visualization or report failed) alike.  A run
\* whose os.remove itself failed is left out.
C11_TestFileReleased ==
  (pc = "returned" /\ ~(ret.op = "os.remove" /\ ~ret.ok)) => ~disk.exists

\* the tickers whose iteration has begun, in the order of their
\* "Processing <ticker>..." lines, and the lines printed so far
IsProcessing(line) == line[1] = "Processing"
Started == SelectSeq(console, IsProcessing)
Printed == {console[j] : j \in DOMAIN console}
LoopOver == pc \in {"charts", "crashed"} \/ (pc = "loop" /\ ticker_index > Len(tickers))

\* C12: the loop of the comparison script processes every ticker of the
\* list exactly once and in list order; an empty download or an error in
\* an iteration ends that iteration only, the loop goes on with the next
\* ticker and ends only when all have been processed; a ticker gets its
\* entry in comparison_data (and a sheet in the comparison workbook) only
\* in an iteration whose download had rows and columns and whose returns,
\* moving averages and volatility were all computed; a ticker whose
\* download was empty has neither an individual workbook nor an entry.
C12_LoopIsolatesTickers ==
  /\ [](/\ Started = [k \in 1..Len(Started) |-> <<"Processing", tickers[k]>>]
        /\ Len(Started) = IF pc = "loop" THEN ticker_index - 1 ELSE
                             IF LoopOver THEN Len(tickers) ELSE ticker_index
        /\ LoopOver => Len(Started) = Len(tickers)
        /\ sheets \subseteq DOMAIN comparison_data
        /\ pc = "charts" => sheets = DOMAIN comparison_data
        /\ \A k \in 1..Len(tickers) :
             <<"No data", tickers[k]>> \in Printed =>
               /\ tickers[k] \notin DOMAIN comparison_data
               /\ tickers[k] \notin workbooks
               /\ tickers[k] \notin sheets)
  /\ [][/\ \A t \in DOMAIN comparison_data' \ DOMAIN comparison_data :
             /\ t = tickers[ticker_index]
             /\ stock_data.rows > 0 /\ stock_data.columns # {}
             /\ AnalysisColumns \subseteq stock_data'.columns
             /\ comparison_data'[t].rows = stock_data.rows
        /\ \A t \in workbooks' \ workbooks : t \in DOMAIN comparison_data
        /\ \A t \in DOMAIN comparison_data : 
             t \in DOMAIN comparison_data' /\ comparison_data'[t] = comparison_data[t]
        /\ (Len(console') > Len(console)
              /\ console'[Len(console')][1] \in {"No data", "Error"})
            => (pc' = "loop" /\ ticker_index' = ticker_index + 1)
       ]_vars

\* the script has written the comparison workbook after the first ticker
\* came back empty, the second raised an error and the third was analysed
C12_Witness ==
  /\ pc = "charts"
  /\ <<"No data", tickers[1]>> \in Printed
  /\ <<"Error", tickers[2]>> \in Printed
  /\ sheets = {tickers[3]}
  /\ workbooks = {tickers[3]}
====
